---------------------------- MODULE Spec2Model ----------------------------
(***************************************************************************)
(* A model of the Event / Events adapter of c8y_api (model/events.py).     *)
(*                                                                         *)
(* Python values are modelled as follows.                                  *)
(*   - None is the string "None"; every other scalar is a string.          *)
(*   - A dict (a JSON object) is a function whose DOMAIN is its key set.   *)
(*   - A str that is a path or a query is a sequence of lexical tokens,    *)
(*     e.g. <<"/event/events", "?", "type", "=", "T", "&", ...>>, so that  *)
(*     concatenation is \o and rindex('&') is a search.                    *)
(*   - An Event object is a record of its attributes.                      *)
(*   - A raised exception is the "error" field of an operation's outcome.  *)
(* The base classes (c8y_api.model._base, _parser, _util) are defined      *)
(* outside model/events.py; the definitions that stand for them are marked *)
(* "base class" below and follow their documented contract.                *)
(***************************************************************************)
EXTENDS Integers, Sequences, FiniteSets, TLC

VARIABLES
    event,      \* the Event object the caller holds
    assigned,   \* the attributes the caller assigned since event was built
    batch,      \* the Event objects the caller passes to the bulk functions
    gen,        \* the generator returned by the latest Events.select call
    server,     \* number of events matching the query upstream
    now,        \* the clock read by datetime.utcnow()
    calls,      \* REST client calls issued by the latest API call
    last        \* what the latest API call was given and what it returned

vars == <<event, assigned, batch, gen, server, now, calls, last>>

---------------------------------------------------------------------------
(* Bounds of the model *)

MaxClock == 2       \* the clock runs over 0..MaxClock
MaxBatch == 2       \* most Event objects / ids passed to one bulk call
MaxEvents == 4      \* most events the server holds
MaxLimit == 3       \* largest limit passed to select
MaxPageSize == 2    \* largest page_size passed to select
MaxPageNumber == 2  \* largest explicit page_number passed to select

---------------------------------------------------------------------------
(* Values *)

None == "None"

Ids == {"7", "8"}
Types == {"T"}
Sources == {"1"}
TimeStrings == {"t0"}
FragmentNames == {"c8y_IsBinary"}
FragmentValue == "frag"

Opt(S) == S \cup {None}

\* An int argument that is not given (None).
NotGiven == 0

\* No generator at hand
NoGen ==
    [state |-> "none", base_query |-> <<>>, page_number |-> NotGiven,
     limit |-> NotGiven, current_page |-> 1, buffer |-> <<>>,
     num_results |-> 0, yielded |-> <<>>]

\* The ISO strings of the clock values 0, 1, ... (a lookup table: TLA+ strings
\* cannot be composed).
NowStrings == <<"now0", "now1", "now2", "now3", "now4", "now5">>

\* c8y_api.model._util._DateUtil.to_timestring (base class): the ISO string
\* of a datetime; a datetime is the clock value it was read at.
to_timestring(dt) == NowStrings[dt + 1]

\* _DateUtil.ensure_timestring (base class): a str is kept, a datetime is
\* formatted, None stays None.  An argument is [kind, s, d].
ensure_timestring(time) ==
    CASE time.kind = "none" -> None
      [] time.kind = "str" -> time.s
      [] time.kind = "datetime" -> to_timestring(time.d)

TimeArgs ==
    {[kind |-> "none", s |-> None, d |-> 0]}
    \cup {[kind |-> "str", s |-> s, d |-> 0] : s \in TimeStrings}
    \cup {[kind |-> "datetime", s |-> None, d |-> d] : d \in 0..0}

NoBody == [nobody |-> None]
EmptyDict == [k \in {} |-> None]

Call(method, path, body) == [method |-> method, path |-> path, body |-> body]

---------------------------------------------------------------------------
(* Event *)

\* Event._resource
_resource == <<"/event/events">>

\* Event._parser: attribute name -> JSON key, and the keys that are not
\* parsed as fragments.
_parser ==
    [mapping |-> {[attr |-> "type", key |-> "type"],
                  [attr |-> "time", key |-> "time"],
                  [attr |-> "_u_text", key |-> "text"],
                  [attr |-> "creation_time", key |-> "creationTime"],
                  [attr |-> "updated_time", key |-> "lastUpdated"]},
     skip |-> {"source"}]

\* The mapping the parser works with (base class): the class's mapping and
\* the id every object has.
ParserMapping == _parser.mapping \cup {[attr |-> "id", key |-> "id"]}

AttrOf(key) == (CHOOSE m \in ParserMapping : m.key = key).attr

\* ComplexObject.__init__ (base class): the connection, no id, the keyword
\* arguments as fragments, nothing flagged as updated.
ComplexObject(c8y, kwargs) ==
    [c8y |-> c8y, id |-> None, fragments |-> kwargs, _updated_fields |-> {}]

\* Event.__init__
Event(c8y, type, time, source, text, kwargs) ==
    LET base == ComplexObject(c8y, kwargs)
    IN  [c8y |-> base.c8y, id |-> base.id, fragments |-> base.fragments,
         _updated_fields |-> base._updated_fields,
         type |-> type,
         time |-> ensure_timestring(time),
         source |-> source,
         _u_text |-> text,
         creation_time |-> None,
         updated_time |-> None]

NoTime == [kind |-> "none", s |-> None, d |-> 0]

\* Event() as from_json calls it
EventDefault == Event(FALSE, None, NoTime, None, None, EmptyDict)

NoEvent == [noevent |-> None]

\* SimpleObject.UpdatableProperty.__set__ (base class): store the value and
\* flag the field as updated.
UpdatableProperty_set(obj, name, value) ==
    [obj EXCEPT ![name] = value,
                !._updated_fields = obj._updated_fields \cup {name}]

\* Event.text = value
text_set(obj, value) == UpdatableProperty_set(obj, "_u_text", value)

\* SimpleObject._to_json / ComplexObject._to_json (base class): the mapped
\* attributes that are set and not excluded, and the fragments; with
\* only_updated, only what is flagged as updated since load.
_to_json(obj, only_updated, exclude) ==
    LET ms == {m \in ParserMapping :
                  /\ m.attr \notin exclude
                  /\ obj[m.attr] # None
                  /\ only_updated => m.attr \in obj._updated_fields}
        fs == IF only_updated THEN {} ELSE DOMAIN obj.fragments
    IN  [k \in {m.key : m \in ms} \cup fs |->
            IF k \in fs THEN obj.fragments[k] ELSE obj[AttrOf(k)]]

to_json_no_source(obj, only_updated) ==
    _to_json(obj, only_updated, {"creation_time"})

to_json_source_always(obj, only_updated) ==
    LET obj_json == _to_json(obj, only_updated, {"creation_time"})
    IN  IF obj.source # None
        THEN [k \in DOMAIN obj_json \cup {"source"} |->
                IF k = "source" THEN [id |-> obj.source] ELSE obj_json[k]]
        ELSE obj_json

\* Event.to_json
to_json(obj, only_updated) ==
    LET obj_json == _to_json(obj, only_updated, {"creation_time"})
    IN  IF ~only_updated /\ obj.source # None
        THEN [k \in DOMAIN obj_json \cup {"source"} |->
                IF k = "source" THEN [id |-> obj.source] ELSE obj_json[k]]
        ELSE obj_json

\* SimpleObject.to_full_json / to_diff_json (base class)
to_full_json(obj) == to_json(obj, FALSE)

to_diff_json(obj) == to_json(obj, TRUE)

\* SimpleObject._from_json / ComplexObject._from_json (base class): every
\* mapped key that is present sets its attribute, every other key that is not
\* skipped becomes a fragment; a missing mapped key leaves the attribute as
\* constructed.
_from_json(json, obj) ==
    LET keys == {m.key : m \in ParserMapping}
        attrs == {m.attr : m \in ParserMapping}
        KeyOf(a) == (CHOOSE m \in ParserMapping : m.attr = a).key
        frags == [k \in DOMAIN json \ (keys \cup _parser.skip) |-> json[k]]
    IN  [a \in DOMAIN obj |->
            IF a = "fragments" THEN frags
            ELSE IF a \in attrs /\ KeyOf(a) \in DOMAIN json THEN json[KeyOf(a)]
            ELSE obj[a]]

from_json_default_source(json) ==
    LET obj == _from_json(json, EventDefault)
    IN  IF "source" \in DOMAIN json /\ "id" \in DOMAIN json["source"]
        THEN [error |-> None, obj |-> [obj EXCEPT !.source = json["source"]["id"]]]
        ELSE [error |-> None, obj |-> obj]

\* Event.from_json: json['source']['id'] raises KeyError when either key is
\* missing.
from_json(json) ==
    LET obj == _from_json(json, EventDefault)
    IN  IF "source" \in DOMAIN json /\ "id" \in DOMAIN json["source"]
        THEN [error |-> None, obj |-> [obj EXCEPT !.source = json["source"]["id"]]]
        ELSE [error |-> "KeyError", obj |-> NoEvent]

\* SimpleObject._assert_c8y / _assert_id (base class): raise unless the
\* connection / the id is set.  TRUE when the assertion passes.
_assert_c8y(obj) == obj.c8y

_assert_id(obj) == obj.id # None

PreconditionError == [error |-> "ValueError", calls |-> <<>>]

Done(cs) == [error |-> None, calls |-> cs]

\* SimpleObject._build_object_path (base class)
_build_object_path(obj) == _resource \o <<"/", obj.id>>

\* Event._build_attachment_path
_build_attachment_path(obj) == _build_object_path(obj) \o <<"/binaries">>

\* SimpleObject._create (base class): needs the connection; posts the full
\* JSON to the resource.
_create(obj) ==
    IF ~_assert_c8y(obj) THEN PreconditionError
    ELSE Done(<<Call("POST", _resource, to_full_json(obj))>>)

\* SimpleObject._update (base class): needs the connection and the id; puts
\* the diff JSON to the object's path.
_update(obj) ==
    IF ~_assert_c8y(obj) \/ ~_assert_id(obj) THEN PreconditionError
    ELSE Done(<<Call("PUT", _build_object_path(obj), to_diff_json(obj))>>)

\* SimpleObject._delete (base class): needs the connection and the id.
_delete(obj) ==
    IF ~_assert_c8y(obj) \/ ~_assert_id(obj) THEN PreconditionError
    ELSE Done(<<Call("DELETE", _build_object_path(obj), NoBody)>>)

\* SimpleObject._apply_to (base class): needs the connection; puts the diff
\* JSON to the path of the other object, whose id is the argument.
_apply_to(obj, other_id) ==
    IF ~_assert_c8y(obj) THEN PreconditionError
    ELSE Done(<<Call("PUT", _resource \o <<"/", other_id>>, to_diff_json(obj))>>)

\* Event.create / update / delete / apply_to
Event_create(obj) == _create(obj)

Event_update(obj) == _update(obj)

Event_delete(obj) == _delete(obj)

Event_apply_to(obj, other_id) == _apply_to(obj, other_id)

download_attachment_no_id_check(obj) ==
    IF ~_assert_c8y(obj) THEN PreconditionError
    ELSE Done(<<Call("GET_FILE", _build_attachment_path(obj), NoBody)>>)

\* Event.download_attachment
download_attachment(obj) ==
    IF ~_assert_c8y(obj) THEN PreconditionError
    ELSE IF ~_assert_id(obj) THEN PreconditionError
    ELSE Done(<<Call("GET_FILE", _build_attachment_path(obj), NoBody)>>)

\* Event.create_attachment
create_attachment(obj) ==
    IF ~_assert_c8y(obj) THEN PreconditionError
    ELSE IF ~_assert_id(obj) THEN PreconditionError
    ELSE Done(<<Call("POST_FILE", _build_attachment_path(obj), NoBody)>>)

\* Event.update_attachment
update_attachment(obj) ==
    IF ~_assert_c8y(obj) THEN PreconditionError
    ELSE IF ~_assert_id(obj) THEN PreconditionError
    ELSE Done(<<Call("PUT_FILE", _build_attachment_path(obj), NoBody)>>)

\* Event.delete_attachment
delete_attachment(obj) ==
    IF ~_assert_c8y(obj) THEN PreconditionError
    ELSE IF ~_assert_id(obj) THEN PreconditionError
    ELSE Done(<<Call("DELETE", _build_attachment_path(obj), NoBody)>>)

---------------------------------------------------------------------------
(* The caller working with one Event object *)


Result(op, before, arg, error, json, obj) ==
    [op |-> op, before |-> before, arg |-> arg, error |-> error,
     json |-> json, obj |-> obj]

Kwargs == {EmptyDict} \cup {[k \in {n} |-> FragmentValue] : n \in FragmentNames}

\* A JSON object with the keys ks; src is "missing", "noid" or "ok".
JsonOf(ks, src) ==
    [k \in ks \cup (IF src = "missing" THEN {} ELSE {"source"}) |->
        CASE k = "source" -> IF src = "ok" THEN [id |-> "1"] ELSE EmptyDict
          [] k = "id" -> "7"
          [] k = "type" -> "T"
          [] k = "time" -> "t0"
          [] k = "text" -> "a"
          [] k = "creationTime" -> "c0"
          [] k = "lastUpdated" -> "u0"
          [] OTHER -> FragmentValue]

JsonKeys == {"id", "type", "time", "text", "creationTime", "lastUpdated"}
            \cup FragmentNames

\* The key sets of the JSON objects the caller parses: every combination of
\* id, text, creationTime and a fragment, with or without type, time and
\* lastUpdated.
JsonKeySets ==
    {ks \cup b : ks \in SUBSET ({"id", "text", "creationTime"} \cup FragmentNames),
                 b \in {{}, {"type", "time", "lastUpdated"}}}

\* The key sets of the JSON objects without a usable source.
BadJsonKeySets == {{}, {"type", "time", "text"}, JsonKeys}

IdleRest == /\ batch = <<>>
            /\ gen = NoGen
            /\ server = 0
            /\ now = 1

InitEvent ==
    /\ event = EventDefault
    /\ assigned = {}
    /\ calls = <<>>
    /\ last = Result("init", NoEvent, None, None, EmptyDict, NoEvent)
    /\ IdleRest

\* event = Event(c8y, type, time, source, text, **kwargs)
Construct ==
    \E c8y \in BOOLEAN, type \in Opt(Types), time \in TimeArgs,
       source \in Opt(Sources), text \in Opt({"a"}), kwargs \in Kwargs :
        /\ event' = Event(c8y, type, time, source, text, kwargs)
        /\ assigned' = {}
        /\ calls' = <<>>
        /\ last' = Result("construct", NoEvent, None, None, EmptyDict, NoEvent)
        /\ UNCHANGED <<batch, gen, server, now>>

\* event.text = value
SetText ==
    \E value \in {"b"} :
        /\ event' = text_set(event, value)
        /\ assigned' = assigned \cup {"text"}
        /\ calls' = <<>>
        /\ last' = Result("set_text", event, value, None, EmptyDict, NoEvent)
        /\ UNCHANGED <<batch, gen, server, now>>

\* event = Event.from_json(json); on an exception event keeps its value
FromJson ==
    \E src \in {"missing", "noid", "ok"} :
    \E ks \in IF src = "ok" THEN JsonKeySets ELSE BadJsonKeySets :
        LET json == JsonOf(ks, src)
            r == from_json(json)
        IN  /\ event' = IF r.error = None THEN r.obj ELSE event
            /\ assigned' = IF r.error = None THEN {} ELSE assigned
            /\ calls' = <<>>
            /\ last' = Result("from_json", IF r.error = None THEN NoEvent ELSE event,
                              None, r.error, json, r.obj)
            /\ UNCHANGED <<batch, gen, server, now>>

\* Events.get(event_id): the object as the server holds it, with the
\* connection injected
Events_get ==
    \E event_id \in Ids, ks \in JsonKeySets :
        LET json == [JsonOf(ks \cup {"id"}, "ok") EXCEPT !["id"] = event_id]
            r == from_json(json)
        IN  /\ event' = [r.obj EXCEPT !.c8y = TRUE]
            /\ assigned' = {}
            /\ calls' = <<Call("GET", _resource \o <<"/", event_id>>, NoBody)>>
            /\ last' = Result("get", NoEvent, event_id, r.error, json, r.obj)
            /\ UNCHANGED <<batch, gen, server, now>>

\* event.to_json(only_updated)
ToJson ==
    \E only_updated \in BOOLEAN :
        /\ last' = Result("to_json", event, only_updated, None,
                          to_json(event, only_updated), NoEvent)
        /\ calls' = <<>>
        /\ UNCHANGED <<event, assigned, batch, gen, server, now>>

\* Event.from_json(event.to_json())
RoundTrip ==
    LET json == to_json(event, FALSE)
        r == from_json(json)
    IN  /\ last' = Result("roundtrip", event, None, r.error, json, r.obj)
        /\ calls' = <<>>
        /\ UNCHANGED <<event, assigned, batch, gen, server, now>>

\* A server operation of the Event object: the object is not changed.
ServerOp(op, arg, r) ==
    /\ calls' = r.calls
    /\ last' = Result(op, event, arg, r.error, EmptyDict, NoEvent)
    /\ UNCHANGED <<event, assigned, batch, gen, server, now>>

EventCreate == ServerOp("create", None, Event_create(event))

EventUpdate == ServerOp("update", None, Event_update(event))

EventDelete == ServerOp("delete", None, Event_delete(event))

EventApplyTo ==
    \E other_id \in Ids : ServerOp("apply_to", other_id, Event_apply_to(event, other_id))

DownloadAttachment == ServerOp("download_attachment", None, download_attachment(event))

CreateAttachment == ServerOp("create_attachment", None, create_attachment(event))

UpdateAttachment == ServerOp("update_attachment", None, update_attachment(event))

DeleteAttachment == ServerOp("delete_attachment", None, delete_attachment(event))

NextEvent ==
    \/ Construct
    \/ SetText
    \/ FromJson
    \/ Events_get
    \/ ToJson
    \/ RoundTrip
    \/ EventCreate
    \/ EventUpdate
    \/ EventDelete
    \/ EventApplyTo
    \/ DownloadAttachment
    \/ CreateAttachment
    \/ UpdateAttachment
    \/ DeleteAttachment

SpecEvent == InitEvent /\ [][NextEvent]_vars

---------------------------------------------------------------------------
(* Claims about one Event object *)

ServerOps == {"create", "update", "delete", "apply_to", "download_attachment",
              "create_attachment", "update_attachment", "delete_attachment"}

\* What a failed precondition looks like: an error, no call on the REST
\* client, the Event as it was.
FailedFast == /\ last.error = "ValueError"
              /\ calls = <<>>
              /\ event = last.before

\* C4 (as amended): every server operation of an Event invoked without an
\* attached REST client, or (for all but create and apply_to) without a
\* server-assigned id, ends in a precondition error, issues no call on the
\* REST client and leaves the Event's fields unchanged.  apply_to addresses
\* the object whose id it is given and needs no id of its own.
C4_FailFast ==
    (/\ last.op \in ServerOps
     /\ \/ ~last.before.c8y
        \/ last.op \notin {"create", "apply_to"} /\ last.before.id = None)
    => FailedFast

\* C4 witness: an attachment operation on an Event with a client and no id
\* has been refused.
C4_Witness ==
    /\ last.op = "delete_attachment"
    /\ last.before.c8y
    /\ last.before.id = None
    /\ FailedFast

\* C4 as stated: every server operation but create fails fast without an id,
\* apply_to included.
C4_Original ==
    (/\ last.op \in ServerOps
     /\ \/ ~last.before.c8y
        \/ last.op # "create" /\ last.before.id = None)
    => FailedFast

RoundTripAttrs == {"type", "time", "source", "_u_text", "updated_time", "fragments"}

\* C6 (as amended): for every Event x whose source is set, whatever its type,
\* time, text, creation_time, updated_time and fragments,
\* Event.from_json(x.to_json()) succeeds and yields an Event whose type,
\* time, source, text, updated_time and fragments equal those of x and whose
\* creation_time is unset (to_json always leaves creationTime out); with
\* source unset to_json writes no source and from_json raises KeyError.
C6_RoundTrip ==
    /\ (last.op = "roundtrip" /\ last.before.source # None)
         => /\ last.error = None
            /\ \A a \in RoundTripAttrs : last.obj[a] = last.before[a]
            /\ last.obj.creation_time = None
    /\ (last.op = "roundtrip" /\ last.before.source = None)
         => last.error = "KeyError" /\ last.obj = NoEvent

\* C6 witness: an Event with source, creation_time, text and a fragment set
\* has made the round trip.
C6_Witness ==
    /\ last.op = "roundtrip"
    /\ last.before.source # None
    /\ last.before.creation_time # None
    /\ last.before._u_text # None
    /\ DOMAIN last.before.fragments # {}
    /\ last.error = None

\* C6 as stated: the round trip succeeds for every Event and gives back every
\* field, creation_time included.
C6_Original ==
    last.op = "roundtrip"
    => /\ last.error = None
       /\ \A a \in RoundTripAttrs \cup {"creation_time"} :
             last.obj[a] = last.before[a]

\* C7: after an Event is constructed or loaded and only its text is then
\* assigned, to_json(only_updated=True) holds the key text, with the value
\* assigned, and no other key; a diff never holds source, creationTime, type
\* or time; and a text given to the constructor and not assigned afterwards
\* is not in the diff.
C7_DiffCorrect ==
    (last.op = "to_json" /\ last.arg = TRUE)
    => /\ DOMAIN last.json \cap {"source", "creationTime", "type", "time"} = {}
       /\ assigned = {"text"}
            => DOMAIN last.json = {"text"} /\ last.json["text"] = event._u_text
       /\ assigned = {} => DOMAIN last.json = {}

\* C7 witness: the diff of a loaded Event with source, type, time and
\* creation_time set, whose text was then assigned.
C7_Witness ==
    /\ last.op = "to_json"
    /\ last.arg = TRUE
    /\ assigned = {"text"}
    /\ event.source # None
    /\ event.type # None
    /\ event.time # None
    /\ event.creation_time # None
    /\ DOMAIN last.json = {"text"}

\* C10: Event.from_json raises (KeyError) and returns no Event whenever the
\* JSON has no 'source' or its source has no 'id'; it never yields an Event
\* with a defaulted source.
C10_ParseError ==
    (/\ last.op = "from_json"
     /\ \/ "source" \notin DOMAIN last.json
        \/ "id" \notin DOMAIN last.json["source"])
    => /\ last.error # None
       /\ last.obj = NoEvent

\* C10 witness: a JSON with type, time, text and a source without id has been
\* refused.
C10_Witness ==
    /\ last.op = "from_json"
    /\ {"source", "type"} \subseteq DOMAIN last.json
    /\ "id" \notin DOMAIN last.json["source"]
    /\ last.error = "KeyError"

---------------------------------------------------------------------------
(* Events: queries *)

\* str(n) and int(s) for the small numbers that occur in a query
IntStr == <<"1", "2", "3", "4", "5", "6", "7", "8", "9", "10", "11", "12">>

str(n) == IntStr[n]

int(s) == CHOOSE n \in DOMAIN IntStr : IntStr[n] = s

FilterNames ==
    {"type", "source", "fragment", "before", "after", "date_from", "date_to",
     "created_before", "created_after", "created_from", "created_to",
     "updated_before", "updated_after", "last_updated_from", "last_updated_to",
     "min_age", "max_age"}

TimeFilters == FilterNames \ {"type", "source", "fragment", "min_age", "max_age"}

\* Keyword arguments with their defaults: None, or NotGiven for a timedelta.
NoFilters ==
    [k \in FilterNames |->
        IF k \in {"min_age", "max_age"} THEN NotGiven
        ELSE IF k \in TimeFilters THEN NoTime ELSE None]

\* The first element of a sequence of values that is not None
FirstGiven(vs) ==
    IF \E i \in DOMAIN vs : vs[i] # None
    THEN vs[CHOOSE i \in DOMAIN vs :
                vs[i] # None /\ \A j \in 1..(i - 1) : vs[j] = None]
    ELSE None

\* The ISO string of the date an age refers to, None when no age is given
AgeDate(age, clock) == IF age = NotGiven THEN None ELSE to_timestring(clock - age)

RECURSIVE Encode(_)
\* The given parameters of a list of <<key, value>>, as key=value&key=value
Encode(pairs) ==
    IF pairs = <<>> THEN <<>>
    ELSE LET rest == Encode(Tail(pairs))
             this == IF Head(pairs)[2] = None THEN <<>>
                     ELSE <<Head(pairs)[1], "=", Head(pairs)[2]>>
         IN  IF this = <<>> THEN rest
             ELSE IF rest = <<>> THEN this
             ELSE this \o <<"&">> \o rest

\* CumulocityResource._build_base_query (base class): the resource, the
\* filters that are given under their query keys (aliases share a key, a
\* time is normalised to its ISO string, an age becomes the date it refers
\* to), the page size, and at the end the page number parameter without its
\* value.
_build_base_query(f, reverse, page_size, clock) ==
    LET t(name) == ensure_timestring(f[name])
        pairs ==
          << <<"type", f.type>>,
             <<"source", f.source>>,
             <<"fragmentType", f.fragment>>,
             <<"dateFrom", FirstGiven(<<t("after"), t("date_from"),
                                        AgeDate(f.max_age, clock)>>)>>,
             <<"dateTo", FirstGiven(<<t("before"), t("date_to"),
                                      AgeDate(f.min_age, clock)>>)>>,
             <<"createdFrom", FirstGiven(<<t("created_after"), t("created_from")>>)>>,
             <<"createdTo", FirstGiven(<<t("created_before"), t("created_to")>>)>>,
             <<"lastUpdatedFrom", FirstGiven(<<t("updated_after"),
                                               t("last_updated_from")>>)>>,
             <<"lastUpdatedTo", FirstGiven(<<t("updated_before"),
                                             t("last_updated_to")>>)>>,
             <<"revert", IF reverse THEN "true" ELSE None>>,
             <<"pageSize", IF page_size = NotGiven THEN None ELSE str(page_size)>> >>
    IN  _resource \o <<"?">> \o Encode(pairs) \o <<"&", "currentPage", "=">>

\* str.rindex: the highest index of the token, 0 for ValueError
rindex(s, tok) ==
    IF \E i \in DOMAIN s : s[i] = tok
    THEN CHOOSE i \in DOMAIN s : s[i] = tok /\ \A j \in (i + 1)..Len(s) : s[j] # tok
    ELSE 0

delete_by_first_separator(f, clock) ==
    LET base_query == _build_base_query(f, FALSE, NotGiven, clock)
        i == CHOOSE k \in DOMAIN base_query :
                /\ base_query[k] = "&"
                /\ \A j \in 1..(k - 1) : base_query[j] # "&"
    IN  Done(<<Call("DELETE", SubSeq(base_query, 1, i - 1), NoBody)>>)

\* Events.delete_by
delete_by(f, clock) ==
    LET base_query == _build_base_query(f, FALSE, NotGiven, clock)
        i == rindex(base_query, "&")
    IN  IF i = 0 THEN [error |-> "ValueError", calls |-> <<>>]
        ELSE Done(<<Call("DELETE", SubSeq(base_query, 1, i - 1), NoBody)>>)

---------------------------------------------------------------------------
(* Events: select, get_all *)

Min(a, b) == IF a < b THEN a ELSE b

\* The value of a parameter of a query: the token after its key and "="
QueryValue(query, key) ==
    query[(CHOOSE i \in DOMAIN query : query[i] = key /\ i + 2 <= Len(query)) + 2]

\* The event the server holds at position k of the result set
ServerJson(k) ==
    [id |-> str(k), type |-> "T", time |-> "t0", text |-> "a",
     source |-> [id |-> "1"]]

\* The positions the server returns for a page of a result set of n events
PageRange(page_size, page, n) ==
    LET first == (page - 1) * page_size + 1
        end == Min(n, page * page_size)
    IN  [i \in 1..(end - first + 1) |-> first + i - 1]

\* CumulocityResource._get_page (base class): GET the query with the page
\* number appended; the events of that page, parsed, with the connection
\* injected.
_get_page(base_query, page, n) ==
    LET query == base_query \o <<str(page)>>
        range == PageRange(int(QueryValue(query, "pageSize")),
                           int(QueryValue(query, "currentPage")), n)
    IN  [call |-> Call("GET", query, NoBody),
         results |-> [i \in DOMAIN range |->
                        [from_json(ServerJson(range[i])).obj EXCEPT !.c8y = TRUE]]]

\* CumulocityResource._iterate (base class), the call: a generator that has
\* not run yet.  It starts at the given page, at page 1 when none is given.
_iterate(base_query, page_number, limit) ==
    [state |-> "created", base_query |-> base_query, page_number |-> page_number,
     limit |-> limit,
     current_page |-> IF page_number = NotGiven THEN 1 ELSE page_number,
     buffer |-> <<>>, num_results |-> 0, yielded |-> <<>>]

Stop(g) == [gen |-> [g EXCEPT !.state = "done"], calls |-> <<>>, item |-> None]

Yield(g, results, cs) ==
    [gen |-> [g EXCEPT !.state = "suspended",
                       !.buffer = Tail(results),
                       !.num_results = g.num_results + 1,
                       !.yielded = Append(g.yielded, Head(results).id)],
     calls |-> cs,
     item |-> Head(results).id]

\* CumulocityResource._iterate (base class), one __next__ of the generator:
\* it ends once limit results were yielded, and after the one page when a
\* page number was given; it fetches the next page only when the results of
\* the page before are used up, and ends at an empty page.
_iterate_next(g, n) ==
    IF g.state \in {"done", "closed"}
    THEN [gen |-> g, calls |-> <<>>, item |-> None]
    ELSE IF g.limit # NotGiven /\ g.num_results >= g.limit THEN Stop(g)
    ELSE IF g.buffer # <<>> THEN Yield(g, g.buffer, <<>>)
    ELSE IF g.page_number # NotGiven /\ g.current_page # g.page_number THEN Stop(g)
    ELSE LET page == _get_page(g.base_query, g.current_page, n)
             fetched == [g EXCEPT !.current_page = g.current_page + 1]
         IN  IF page.results = <<>>
             THEN [Stop(fetched) EXCEPT !.calls = <<page.call>>]
             ELSE Yield(fetched, page.results, <<page.call>>)

select_no_limit(f, reverse, limit, page_size, page_number, clock) ==
    [gen |-> _iterate(_build_base_query(f, reverse, page_size, clock),
                      page_number, NotGiven),
     calls |-> <<>>]

select_follow_pages(f, reverse, limit, page_size, page_number, clock) ==
    [gen |-> _iterate(_build_base_query(f, reverse, page_size, clock),
                      NotGiven, limit),
     calls |-> <<>>]

select_eager(f, reverse, limit, page_size, page_number, clock) ==
    LET g == _iterate(_build_base_query(f, reverse, page_size, clock),
                      page_number, limit)
        page == _get_page(g.base_query, g.current_page, server)
    IN  [gen |-> [g EXCEPT !.buffer = page.results,
                           !.current_page = g.current_page + 1],
         calls |-> <<page.call>>]

\* Events.select: the generator, and the calls issued on the way (none)
select(f, reverse, limit, page_size, page_number, clock) ==
    [gen |-> _iterate(_build_base_query(f, reverse, page_size, clock),
                      page_number, limit),
     calls |-> <<>>]

RECURSIVE Drain(_, _, _)
\* list(generator): __next__ until the generator ends
Drain(g, cs, n) ==
    IF g.state \in {"done", "closed"} THEN [gen |-> g, calls |-> cs]
    ELSE LET r == _iterate_next(g, n)
         IN  Drain(r.gen, cs \o r.calls, n)

\* Events.get_all
get_all(f, reverse, limit, page_size, page_number, clock) ==
    LET s == select(f, reverse, limit, page_size, page_number, clock)
    IN  Drain(s.gen, s.calls, server)

---------------------------------------------------------------------------
(* The caller working with the Events collection *)

Str(t) == [kind |-> "str", s |-> t, d |-> 0]

\* The filters and the order the caller selects by
SelectFilters ==
    {[f |-> NoFilters, reverse |-> FALSE],
     [f |-> [NoFilters EXCEPT !.type = "T", !.before = Str("t0")], reverse |-> TRUE]}

\* The filters the caller deletes by: every combination of type, source,
\* fragment, before or min_age, after or max_age
DeleteFilters ==
    {[NoFilters EXCEPT !.type = ty, !.source = so, !.fragment = fr,
                       !.before = be, !.after = af,
                       !.min_age = mi, !.max_age = ma] :
        ty \in Opt(Types), so \in Opt(Sources), fr \in Opt(FragmentNames),
        be \in {NoTime, Str("t0")},
        af \in {NoTime, Str("t0")},
        mi \in {NotGiven, 1}, ma \in {NotGiven, 1}}

Unfiltered(f) == f = NoFilters

Limits == {NotGiven} \cup 1..MaxLimit

PageSizes == 1..MaxPageSize

PageNumbers == {NotGiven} \cup 1..MaxPageNumber

SelectArgs(f, reverse, limit, page_size, page_number) ==
    [f |-> f, reverse |-> reverse, limit |-> limit, page_size |-> page_size,
     page_number |-> page_number]

InitSelect ==
    /\ event = EventDefault
    /\ assigned = {}
    /\ batch = <<>>
    /\ gen = NoGen
    /\ server \in 0..MaxEvents
    /\ now = 1
    /\ calls = <<>>
    /\ last = Result("init", NoEvent, None, None, EmptyDict, NoEvent)

\* The caller works with one generator at a time.
Idle == gen.state \in {"none", "done", "closed"}

\* gen = events.select(...)
Select ==
    \E fr \in SelectFilters, limit \in Limits,
       page_size \in PageSizes, page_number \in PageNumbers :
        LET f == fr.f
            reverse == fr.reverse
            r == select(f, reverse, limit, page_size, page_number, now)
        IN  /\ Idle
            /\ gen' = r.gen
            /\ calls' = r.calls
            /\ last' = Result("select", NoEvent,
                              SelectArgs(f, reverse, limit, page_size, page_number),
                              None, EmptyDict, NoEvent)
            /\ UNCHANGED <<event, assigned, batch, server, now>>

\* next(gen): the consumer asks for the next element
Next_ ==
    /\ gen.state # "none"
    /\ LET r == _iterate_next(gen, server)
       IN  /\ gen' = r.gen
           /\ calls' = calls \o r.calls
           /\ last' = Result("next", NoEvent, last.arg,
                             IF r.item = None THEN "StopIteration" ELSE None,
                             EmptyDict, r.item)
    /\ UNCHANGED <<event, assigned, batch, server, now>>

\* gen.close(): the consumer abandons the generator
Close ==
    /\ gen.state \in {"created", "suspended"}
    /\ gen' = [gen EXCEPT !.state = "closed"]
    /\ last' = Result("close", NoEvent, last.arg, None, EmptyDict, NoEvent)
    /\ UNCHANGED <<event, assigned, batch, server, now, calls>>

\* events.get_all(...)
GetAll ==
    \E fr \in SelectFilters, limit \in Limits,
       page_size \in PageSizes, page_number \in PageNumbers :
        LET f == fr.f
            reverse == fr.reverse
            r == get_all(f, reverse, limit, page_size, page_number, now)
        IN  /\ Idle
            /\ gen' = NoGen
            /\ calls' = r.calls
            /\ last' = Result("get_all", NoEvent,
                              SelectArgs(f, reverse, limit, page_size, page_number),
                              None, EmptyDict, r.gen.yielded)
            /\ UNCHANGED <<event, assigned, batch, server, now>>

NextSelect ==
    \/ Select
    \/ Next_
    \/ Close
    \/ GetAll

SpecSelect == InitSelect /\ [][NextSelect]_vars

---------------------------------------------------------------------------
(* Claims about select and get_all *)

Ceil(a, b) == (a + b - 1) \div b

\* The ids of the events on a page, in the server's order
PageIds(page_size, page, n) ==
    LET range == PageRange(page_size, page, n)
    IN  [i \in DOMAIN range |-> str(range[i])]

\* The page a request asks for
PageOf(call) == int(QueryValue(call.path, "currentPage"))

RECURSIVE Served(_, _)
\* The number of events in the pages the requests cs have asked for
Served(cs, n) ==
    IF cs = <<>> THEN 0
    ELSE Len(PageRange(int(QueryValue(Head(cs).path, "pageSize")),
                       PageOf(Head(cs)), n))
         + Served(Tail(cs), n)

IsPrefix(s, t) == Len(s) <= Len(t) /\ \A i \in DOMAIN s : s[i] = t[i]

Distinct(s) == \A i, j \in DOMAIN s : i # j => s[i] # s[j]

OfGenerator == last.op \in {"select", "next", "close"}

\* C1: for limit L >= 1 and page_size P >= 1, without page_number and with at
\* least L events upstream, a select never issues more than ceil(L/P) page
\* requests and, consumed to its end, has yielded exactly L events; get_all
\* returns exactly L events with at most ceil(L/P) requests.
C1_LimitPaging ==
    (/\ last.op \in {"select", "next", "close", "get_all"}
     /\ last.arg.limit # NotGiven
     /\ last.arg.page_number = NotGiven
     /\ server >= last.arg.limit)
    => /\ Len(calls) <= Ceil(last.arg.limit, last.arg.page_size)
       /\ \A i \in DOMAIN calls : calls[i].method = "GET"
       /\ (OfGenerator /\ gen.state = "done")
            => Len(gen.yielded) = last.arg.limit /\ Distinct(gen.yielded)
       /\ last.op = "get_all"
            => Len(last.obj) = last.arg.limit /\ Distinct(last.obj)

\* C1 witness: select(limit=3, page_size=2) consumed to its end, with more
\* than 3 events upstream: 3 events from 2 requests.
C1_Witness ==
    /\ last.op = "next"
    /\ last.arg.limit = 3
    /\ last.arg.page_size = 2
    /\ last.arg.page_number = NotGiven
    /\ server > 3
    /\ gen.state = "done"
    /\ Len(gen.yielded) = 3
    /\ Len(calls) = 2

\* C2: select is lazy.  The call itself issues no request; a request is
\* issued only by a __next__ of a generator that has not ended, was not
\* closed and has not reached its limit, and only when every event of the
\* pages requested before has been yielded; it is one request, for the page
\* after the one requested before.
C2_Lazy ==
    [][/\ last'.op = "select" => calls' = <<>>
       /\ (last'.op \in {"next", "close"} /\ calls' # calls)
            => /\ last'.op = "next"
               /\ gen.state \in {"created", "suspended"}
               /\ last.arg.limit = NotGiven \/ Len(gen.yielded) < last.arg.limit
               /\ Len(gen.yielded) = Served(calls, server)
               /\ Len(calls') = Len(calls) + 1
               /\ SubSeq(calls', 1, Len(calls)) = calls
               /\ calls # <<>>
                    => PageOf(calls'[Len(calls')]) = PageOf(calls[Len(calls)]) + 1
      ]_vars

\* C2 witness: the consumer took the first page, closed the generator and
\* asked again, with more events upstream: there was no second request.
C2_Witness ==
    /\ last.op = "next"
    /\ last.error = "StopIteration"
    /\ gen.state = "closed"
    /\ last.arg.limit = NotGiven
    /\ last.arg.page_number = NotGiven
    /\ Len(calls) = 1
    /\ Len(gen.yielded) = last.arg.page_size
    /\ server > Len(gen.yielded)

\* C3: with an explicit page_number select requests no page but that one, and
\* once, and yields events of that page only, in order; consumed to its end
\* (as get_all does) it has issued exactly one request and yielded the page,
\* cut at the limit.
C3_SinglePage ==
    (/\ last.op \in {"select", "next", "close", "get_all"}
     /\ last.arg.page_number # NotGiven)
    => LET page == PageIds(last.arg.page_size, last.arg.page_number, server)
           full == IF last.arg.limit = NotGiven THEN Len(page)
                   ELSE Min(Len(page), last.arg.limit)
       IN  /\ Len(calls) <= 1
           /\ \A i \in DOMAIN calls :
                calls[i].method = "GET" /\ PageOf(calls[i]) = last.arg.page_number
           /\ OfGenerator => IsPrefix(gen.yielded, page)
           /\ (OfGenerator /\ gen.state = "done")
                => Len(calls) = 1 /\ Len(gen.yielded) = full
           /\ last.op = "get_all"
                => Len(calls) = 1 /\ last.obj = SubSeq(page, 1, full)

\* C3 witness: get_all(page_size=1, page_number=2) with 3 or more events
\* upstream returned the one event of page 2 from one request.
C3_Witness ==
    /\ last.op = "get_all"
    /\ last.arg.page_number = 2
    /\ last.arg.page_size = 1
    /\ last.arg.limit = NotGiven
    /\ server >= 3
    /\ Len(calls) = 1
    /\ last.obj = <<"2">>

---------------------------------------------------------------------------
(* The caller deleting by filter *)

InitDeleteBy ==
    /\ event = EventDefault
    /\ assigned = {}
    /\ batch = <<>>
    /\ gen = NoGen
    /\ server \in 0..MaxEvents
    /\ now = 1
    /\ calls = <<>>
    /\ last = Result("init", NoEvent, None, None, EmptyDict, NoEvent)

\* events.delete_by(...); a date and the age that stands for the same bound
\* are not given together
DeleteBy ==
    \E f \in DeleteFilters :
        /\ ~(f.before # NoTime /\ f.min_age # NotGiven)
        /\ ~(f.after # NoTime /\ f.max_age # NotGiven)
        /\ LET r == delete_by(f, now)
           IN  /\ calls' = r.calls
               /\ last' = Result("delete_by", NoEvent, f, r.error, EmptyDict, NoEvent)
        /\ UNCHANGED <<event, assigned, batch, gen, server, now>>

\* time passes
Tick ==
    /\ now < MaxClock
    /\ now' = now + 1
    /\ UNCHANGED <<event, assigned, batch, gen, server, calls, last>>

NextDeleteBy ==
    \/ DeleteBy
    \/ Tick

SpecDeleteBy == InitDeleteBy /\ [][NextDeleteBy]_vars

---------------------------------------------------------------------------
(* Claims about delete_by *)

\* C5: delete_by called without any filter never sends a DELETE on the whole
\* events resource: it raises an error or issues no delete request.
C5_NoUnfilteredDelete ==
    (last.op = "delete_by" /\ Unfiltered(last.arg))
    => \/ last.error # None
       \/ \A i \in DOMAIN calls : calls[i].method # "DELETE"

RECURSIVE Split(_, _)
\* The segments of a sequence of tokens between the separators sep
Split(s, sep) ==
    IF \A i \in DOMAIN s : s[i] # sep THEN <<s>>
    ELSE LET i == CHOOSE k \in DOMAIN s :
                    s[k] = sep /\ \A j \in 1..(k - 1) : s[j] # sep
         IN  <<SubSeq(s, 1, i - 1)>> \o Split(SubSeq(s, i + 1, Len(s)), sep)

RECURSIVE Join(_, _)
\* The segments, joined with the separator sep
Join(parts, sep) ==
    IF parts = <<>> THEN <<>>
    ELSE IF Len(parts) = 1 THEN parts[1]
    ELSE parts[1] \o <<sep>> \o Join(Tail(parts), sep)

\* The query parameters that control pagination
PaginationKeys == {"pageSize", "currentPage"}

IsFilterParameter(p) == p # <<>> => p[1] \notin PaginationKeys

\* The parameters of a query (what follows "?"), one <<key, "=", value>> each
ParametersOf(query) ==
    LET q == CHOOSE k \in DOMAIN query : query[k] = "?"
    IN  Split(SubSeq(query, q + 1, Len(query)), "&")

\* A query with its pagination parameters removed
WithoutPagination(query) ==
    LET q == CHOOSE k \in DOMAIN query : query[k] = "?"
    IN  SubSeq(query, 1, q)
        \o Join(SelectSeq(ParametersOf(query), IsFilterParameter), "&")

\* The query parameters the filters given to delete_by stand for
GivenParameters(f, clock) ==
    {<<"type", "=", f.type>> : x \in {1} \cap {IF f.type # None THEN 1 ELSE 0}}
    \cup {<<"source", "=", f.source>> :
            x \in {1} \cap {IF f.source # None THEN 1 ELSE 0}}
    \cup {<<"fragmentType", "=", f.fragment>> :
            x \in {1} \cap {IF f.fragment # None THEN 1 ELSE 0}}
    \cup {<<"dateTo", "=", ensure_timestring(f.before)>> :
            x \in {1} \cap {IF f.before # NoTime THEN 1 ELSE 0}}
    \cup {<<"dateFrom", "=", ensure_timestring(f.after)>> :
            x \in {1} \cap {IF f.after # NoTime THEN 1 ELSE 0}}
    \cup {<<"dateTo", "=", to_timestring(clock - f.min_age)>> :
            x \in {1} \cap {IF f.min_age # NotGiven THEN 1 ELSE 0}}
    \cup {<<"dateFrom", "=", to_timestring(clock - f.max_age)>> :
            x \in {1} \cap {IF f.max_age # NotGiven THEN 1 ELSE 0}}

\* The query Events.select builds for the filters, in the default order
SelectQuery(f, page_size, clock) ==
    select(f, FALSE, NotGiven, page_size, NotGiven, clock).gen.base_query

\* What C12 says of one delete_by call: its filters, the clock it read, the
\* error it raised and the calls it issued
SameFilterQuery(f, clock, error, cs) ==
    /\ error = None
    /\ Len(cs) = 1
    /\ cs[1].method = "DELETE"
    /\ \A page_size \in PageSizes :
         cs[1].path = WithoutPagination(SelectQuery(f, page_size, clock))
    /\ LET ps == ParametersOf(cs[1].path)
       IN  {ps[i] : i \in DOMAIN ps} \ {<<>>} = GivenParameters(f, clock)

---------------------------------------------------------------------------
(* Events: create, update, apply_to *)

\* The function an Events method hands to the base class to turn an object
\* into JSON, by name
Jsonify(jsonify_func, obj) ==
    IF jsonify_func = "to_full_json" THEN to_full_json(obj) ELSE to_diff_json(obj)

\* CumulocityResource._create (base class): post the JSON of each object to
\* the resource.
Resource_create(jsonify_func, objects) ==
    [i \in DOMAIN objects |->
        Call("POST", _resource, Jsonify(jsonify_func, objects[i]))]

\* CumulocityResource._update (base class): put the JSON of each object to
\* the object's path.
Resource_update(jsonify_func, objects) ==
    [i \in DOMAIN objects |->
        Call("PUT", _resource \o <<"/", objects[i].id>>,
             Jsonify(jsonify_func, objects[i]))]

\* CumulocityResource._apply_to (base class): put the JSON of the model
\* object to the path of each id.
Resource_apply_to(jsonify_func, model, ids) ==
    [i \in DOMAIN ids |->
        Call("PUT", _resource \o <<"/", ids[i]>>, Jsonify(jsonify_func, model))]

Events_create_overwrite(es, reads) ==
    LET stamped == [i \in DOMAIN es |->
                      [es[i] EXCEPT !.time = to_timestring(reads[i])]]
    IN  [events |-> stamped, calls |-> Resource_create("to_full_json", stamped)]

\* Events.create; reads[i] is the clock value utcnow() returns for events[i].
\* The Event objects are the caller's and are changed in place.
Events_create(es, reads) ==
    LET stamped == [i \in DOMAIN es |->
                      IF es[i].time = None
                      THEN [es[i] EXCEPT !.time = to_timestring(reads[i])]
                      ELSE es[i]]
    IN  [events |-> stamped, calls |-> Resource_create("to_full_json", stamped)]

\* Events.update
Events_update(es) == Resource_update("to_diff_json", es)

\* Events.apply_to
Events_apply_to(template, event_ids) ==
    Resource_apply_to("to_full_json", template, event_ids)

---------------------------------------------------------------------------
(* The caller working with several Event objects *)

\* The Event objects the caller holds: a new one without time, a new one
\* with time, one loaded from the server, and a loaded one whose text was
\* then assigned.
Loaded == from_json(JsonOf({"id", "type", "time", "text", "creationTime",
                            "lastUpdated"}, "ok")).obj

Pool ==
    {Event(FALSE, "T", NoTime, "1", "a", EmptyDict),
     Event(FALSE, "T", Str("t0"), "1", None, EmptyDict),
     Loaded,
     text_set(Loaded, "b")}

SeqsOf(S, n) == UNION {[1..k -> S] : k \in 1..n}

InitBulk ==
    /\ event = EventDefault
    /\ assigned = {}
    /\ batch \in SeqsOf(Pool, MaxBatch)
    /\ gen = NoGen
    /\ server = 0
    /\ now = 1
    /\ calls = <<>>
    /\ last = Result("init", NoEvent, None, None, EmptyDict, NoEvent)

\* events.create(*batch); the clock may advance between two readings
BulkCreate ==
    \E reads \in [DOMAIN batch -> now..MaxClock] :
        /\ \A i, j \in DOMAIN reads : i <= j => reads[i] <= reads[j]
        /\ LET r == Events_create(batch, reads)
           IN  /\ batch' = r.events
               /\ calls' = r.calls
        /\ now' = reads[Len(batch)]
        /\ last' = Result("bulk_create", batch, now, None, EmptyDict, NoEvent)
        /\ UNCHANGED <<event, assigned, gen, server>>

\* events.update(*batch)
BulkUpdate ==
    /\ calls' = Events_update(batch)
    /\ last' = Result("bulk_update", batch, None, None, EmptyDict, NoEvent)
    /\ UNCHANGED <<event, assigned, batch, gen, server, now>>

\* events.apply_to(batch[1], *event_ids)
BulkApplyTo ==
    \E event_ids \in SeqsOf(Ids, MaxBatch) :
        /\ calls' = Events_apply_to(batch[1], event_ids)
        /\ last' = Result("bulk_apply_to", batch, event_ids, None, EmptyDict, NoEvent)
        /\ UNCHANGED <<event, assigned, batch, gen, server, now>>

NextBulk ==
    \/ BulkCreate
    \/ BulkUpdate
    \/ BulkApplyTo
    \/ Tick

SpecBulk == InitBulk /\ [][NextBulk]_vars

---------------------------------------------------------------------------
(* Claims about create, update, apply_to *)

\* C8: apply_to(template, id1..idn) sends one update to each of the n ids,
\* and to no other object, whose payload is the template's diff, not its
\* full JSON; update sends to each object its own diff.
C8_DiffPayloads ==
    /\ last.op = "bulk_apply_to"
         => /\ Len(calls) = Len(last.arg)
            /\ \A i \in DOMAIN calls :
                 calls[i] = Call("PUT", _resource \o <<"/", last.arg[i]>>,
                                 to_json(batch[1], TRUE))
    /\ last.op = "bulk_update"
         => /\ Len(calls) = Len(batch)
            /\ \A i \in DOMAIN calls :
                 calls[i] = Call("PUT", _resource \o <<"/", batch[i].id>>,
                                 to_json(batch[i], TRUE))

\* C9: create(e1..en) posts every event once, in order; an event whose time
\* was unset is sent with the time the clock showed during the call, and
\* holds it; an event whose time was set is sent with that time; no other
\* attribute of any event is changed.
C9_CreateStamps ==
    last.op = "bulk_create"
    => /\ Len(calls) = Len(last.before)
       /\ Len(batch) = Len(last.before)
       /\ \A i \in DOMAIN last.before :
            LET was == last.before[i]
            IN  /\ calls[i].method = "POST"
                /\ calls[i].path = _resource
                /\ was.time = None
                     => \E t \in last.arg..now : batch[i].time = to_timestring(t)
                /\ was.time # None => batch[i].time = was.time
                /\ "time" \in DOMAIN calls[i].body
                /\ calls[i].body["time"] = batch[i].time
                /\ \A a \in DOMAIN was \ {"time"} : batch[i][a] = was[a]

\* C9 witness: two events created in one call, the first without a time, the
\* second with one.
C9_Witness ==
    /\ last.op = "bulk_create"
    /\ Len(last.before) = 2
    /\ last.before[1].time = None
    /\ last.before[2].time # None
    /\ batch[1].time # None
    /\ Len(calls) = 2

---------------------------------------------------------------------------
(* _util.validate_base_url *)

MaxHostLen == 2     \* longest host name of a URL given to validate_base_url

\* A str that is a URL is the sequence of its characters.
SchemeSeparator == <<":", "/", "/">>

Https == <<"h", "t", "t", "p", "s">>

Http == <<"h", "t", "t", "p">>

\* str.find(sub, start): the lowest 0-based index at or after start where sub
\* occurs, -1 when it does not occur
find(s, sub, start) ==
    LET at == {k \in start..(Len(s) - Len(sub)) :
                  SubSeq(s, k + 1, k + Len(sub)) = sub}
    IN  IF at = {} THEN -1
        ELSE CHOOSE k \in at : \A m \in at : k <= m

\* validate_base_url
validate_base_url(url) ==
    LET i == find(url, SchemeSeparator, 0)
        j == find(url, <<"/">>, i + 3)
    IN  (IF i = -1 THEN Https \o SchemeSeparator ELSE <<>>)
        \o (IF j = -1 THEN url ELSE SubSeq(url, 1, j))

\* The URLs the caller passes: [scheme://]host[:port][path]
UrlSchemes == {<<>>, Http \o SchemeSeparator, Https \o SchemeSeparator}

UrlHosts == UNION {[1..n -> {"a", "b"}] : n \in 1..MaxHostLen}

UrlPorts == {<<>>, <<":", "8">>}

UrlPaths == {<<>>, <<"/">>, <<"/", "p">>, <<"/", "p", "/">>}

Urls ==
    {s \o h \o p \o q :
        s \in UrlSchemes, h \in UrlHosts, p \in UrlPorts, q \in UrlPaths}

InitUrl ==
    /\ event = EventDefault
    /\ assigned = {}
    /\ calls = <<>>
    /\ last = Result("init", NoEvent, <<>>, None, EmptyDict, <<>>)
    /\ IdleRest

\* base_url = validate_base_url(url)
Validate ==
    \E url \in Urls :
        /\ last' = Result("validate_base_url", NoEvent, url, None, EmptyDict,
                          validate_base_url(url))
        /\ UNCHANGED <<event, assigned, batch, gen, server, now, calls>>

\* base_url = validate_base_url(base_url): a validated URL is validated again
Revalidate ==
    /\ last.op \in {"validate_base_url", "validate_again"}
    /\ last' = Result("validate_again", NoEvent, last.obj, None, EmptyDict,
                      validate_base_url(last.obj))
    /\ UNCHANGED <<event, assigned, batch, gen, server, now, calls>>

NextUrl ==
    \/ Validate
    \/ Revalidate

SpecUrl == InitUrl /\ [][NextUrl]_vars

---------------------------------------------------------------------------
(* Claims about validate_base_url *)

\* The scheme of a URL: what stands before its first "://", <<>> when there
\* is no "://" or nothing before it
SchemeOf(url) ==
    LET i == find(url, SchemeSeparator, 0)
    IN  IF i = -1 THEN <<>> ELSE SubSeq(url, 1, i)

\* What follows the scheme separator of a URL (the whole URL without one)
AfterScheme(url) ==
    LET i == find(url, SchemeSeparator, 0)
    IN  IF i = -1 THEN url ELSE SubSeq(url, i + 4, Len(url))

\* The URL has no path and no trailing slash: no "/" after its scheme
NoPath(url) == \A k \in DOMAIN AfterScheme(url) : AfterScheme(url)[k] # "/"

\* C11: the URL validate_base_url returns has a scheme (https when the input
\* has none, the input's scheme otherwise), no path and no trailing slash,
\* and validating it again returns it unchanged.
C11_BaseUrl ==
    last.op = "validate_base_url"
    => /\ SchemeOf(last.obj) # <<>>
       /\ SchemeOf(last.obj) = (IF SchemeOf(last.arg) = <<>> THEN Https
                                ELSE SchemeOf(last.arg))
       /\ NoPath(last.obj)
       /\ validate_base_url(last.obj) = last.obj

===========================================================================
